---- MODULE Spec2Model ----
(***************************************************************************)
(* Embedded file system (deno-efs): the asset discoverer                   *)
(* generateAssetReferences and the ArchiveReader, as state machines.       *)
(*                                                                         *)
(* A path is a sequence of segments; a system path is absolute.  A base64  *)
(* text is a sequence of one-character strings; bytes are 0..255.          *)
(***************************************************************************)
EXTENDS Integers, Sequences, FiniteSets, TLC

\* ------------------------------------------------------------------ bounds
MaxGlobs == 2     \* length of the `globs` argument
MaxWalk == 3      \* entries the glob enumerations produce in one run
MaxPulls == 4     \* next() calls of the consumer
MaxArchive == 2   \* records of an archive

\* ------------------------------------------------------- sequence helpers
Includes(s, x) == \E k \in 1..Len(s) : s[k] = x

Prefix(s, n) == SubSeq(s, 1, n)

\* ----------------------------------------------------------------- base64
B64Alphabet ==
  << "A","B","C","D","E","F","G","H","I","J","K","L","M","N","O","P",
     "Q","R","S","T","U","V","W","X","Y","Z","a","b","c","d","e","f",
     "g","h","i","j","k","l","m","n","o","p","q","r","s","t","u","v",
     "w","x","y","z","0","1","2","3","4","5","6","7","8","9","+","/" >>

B64Char(v) == B64Alphabet[v + 1]

B64Value(c) == (CHOOSE k \in 1..Len(B64Alphabet) : B64Alphabet[k] = c) - 1

IsB64Char(c) == \E k \in 1..Len(B64Alphabet) : B64Alphabet[k] = c

\* base64.encode: three bytes to four characters, "=" padding at the end
RECURSIVE Base64Encode(_)
Base64Encode(b) ==
  IF Len(b) = 0 THEN <<>>
  ELSE IF Len(b) = 1 THEN
    << B64Char(b[1] \div 4), B64Char((b[1] % 4) * 16), "=", "=" >>
  ELSE IF Len(b) = 2 THEN
    << B64Char(b[1] \div 4),
       B64Char((b[1] % 4) * 16 + (b[2] \div 16)),
       B64Char((b[2] % 16) * 4), "=" >>
  ELSE
    << B64Char(b[1] \div 4),
       B64Char((b[1] % 4) * 16 + (b[2] \div 16)),
       B64Char((b[2] % 16) * 4 + (b[3] \div 64)),
       B64Char(b[3] % 64) >> \o Base64Encode(SubSeq(b, 4, Len(b)))

\* the data characters of a base64 text: one or two trailing "=" are
\* dropped when the length is a multiple of four
B64Strip(t) ==
  IF Len(t) % 4 = 0 /\ Len(t) > 0 /\ t[Len(t)] = "="
  THEN IF t[Len(t) - 1] = "=" THEN Prefix(t, Len(t) - 2)
       ELSE Prefix(t, Len(t) - 1)
  ELSE t

RECURSIVE B64Bytes(_)
B64Bytes(d) ==
  IF Len(d) < 2 THEN <<>>
  ELSE IF Len(d) = 2 THEN
    << B64Value(d[1]) * 4 + (B64Value(d[2]) \div 16) >>
  ELSE IF Len(d) = 3 THEN
    << B64Value(d[1]) * 4 + (B64Value(d[2]) \div 16),
       (B64Value(d[2]) % 16) * 16 + (B64Value(d[3]) \div 4) >>
  ELSE
    << B64Value(d[1]) * 4 + (B64Value(d[2]) \div 16),
       (B64Value(d[2]) % 16) * 16 + (B64Value(d[3]) \div 4),
       (B64Value(d[3]) % 4) * 64 + B64Value(d[4]) >>
    \o B64Bytes(SubSeq(d, 5, Len(d)))

\* base64.decode: the bytes, or a failure on a text that is no base64
Base64Decode(t) ==
  LET d == B64Strip(t) IN
  IF Len(d) % 4 = 1 \/ \E k \in 1..Len(d) : ~IsB64Char(d[k])
  THEN [ok |-> FALSE, bytes |-> <<>>]
  ELSE [ok |-> TRUE, bytes |-> B64Bytes(d)]

\* ------------------------------------------------------------------ paths
\* "." and ".." segments resolved as a URL's path resolves them: ".."
\* removes the segment before it and is dropped at the root
RECURSIVE ResolveDots(_, _)
ResolveDots(segs, acc) ==
  IF segs = <<>> THEN acc
  ELSE IF Head(segs) = "." THEN ResolveDots(Tail(segs), acc)
  ELSE IF Head(segs) = ".." THEN
    ResolveDots(Tail(segs), IF acc = <<>> THEN acc ELSE Prefix(acc, Len(acc) - 1))
  ELSE ResolveDots(Tail(segs), Append(acc, Head(segs)))

\* decodeURIComponent on one segment: "%78" is the escape of "x"
PercentDecode(seg) == IF seg = "%78" THEN "x" ELSE seg

RECURSIVE CommonLen(_, _)
CommonLen(a, b) ==
  IF a = <<>> \/ b = <<>> \/ Head(a) # Head(b) THEN 0
  ELSE 1 + CommonLen(Tail(a), Tail(b))

\* path.relative(from, to) of two absolute paths
Relative(from, to) ==
  LET c == CommonLen(from, to) IN
  [k \in 1..(Len(from) - c) |-> ".."] \o SubSeq(to, c + 1, Len(to))

\* a string path: "/"-rooted or not, and its segments
StrPath(abs, segs) == [abs |-> abs, segs |-> segs]

\* posix.fromFileUrl("file:///" + rel): the URL's path, percent-decoded
FromFileUrl(rel) ==
  LET p == ResolveDots(rel, <<>>) IN
  StrPath(TRUE, [k \in 1..Len(p) |-> PercentDecode(p[k])])

\* the escaping posix.toFileUrl does on one segment
PercentEncode(seg) == IF seg = "%78" THEN "%2578" ELSE seg

NoHref == [scheme |-> "", segs |-> <<>>]

\* posix.toFileUrl(path).href; a path that is not absolute is a TypeError
ToFileUrl(path) ==
  IF ~path.abs THEN [ok |-> FALSE, href |-> NoHref]
  ELSE LET e == [k \in 1..Len(path.segs) |-> PercentEncode(path.segs[k])] IN
       [ok |-> TRUE, href |-> [scheme |-> "file", segs |-> ResolveDots(e, <<>>)]]


\* ------------------------------------------------------- the file system
\* what the glob enumeration (std expandGlob) can yield: regular files
\* inside and outside the base directory, a directory and a symbolic link
WalkEntries ==
  { [path |-> <<"d", "x">>, isFile |-> TRUE, isSymlink |-> FALSE],
    [path |-> <<"x">>, isFile |-> TRUE, isSymlink |-> FALSE],
    [path |-> <<"d", "%78">>, isFile |-> TRUE, isSymlink |-> FALSE],
    [path |-> <<"d", "s", "y">>, isFile |-> TRUE, isSymlink |-> FALSE],
    [path |-> <<"d", "s">>, isFile |-> FALSE, isSymlink |-> FALSE],
    [path |-> <<"d", "l">>, isFile |-> FALSE, isSymlink |-> TRUE] }

BaseDirs == { <<"d">>, <<"d", "s">> }

\* Deno.readFile(path) when it succeeds
FileBytes(path) ==
  IF path = <<"d", "x">> THEN <<97>>
  ELSE IF path = <<"x">> THEN <<98, 99>>
  ELSE IF path = <<"d", "%78">> THEN <<97, 98, 99>>
  ELSE <<255>>

VARIABLES
  cwd,              \* generateAssetReferences: the base directory
  nGlobs,           \* generateAssetReferences: globs.length
  allowDuplicates,  \* generateAssetReferences: the flag
  pc,               \* where the generator is
  g,                \* index of the glob being enumerated
  files,            \* the "memory for duplicate skip"
  cur,              \* the entry whose contents are being read
  walked,           \* every entry enumerated so far, with its glob index
  emitted,          \* the elements delivered to the consumer
  emittedAt,        \* for each element, the index in walked it comes from
  reads,            \* Deno.readFile calls made
  requested,        \* next() calls made by the consumer
  answers,          \* how each settled next() ended, in order
  failure,          \* "none", or what failed: "read" or "walk"
  failedAt,         \* Len(walked) when the failure happened
  stopped,          \* the consumer called return()
  stopAt,           \* elements received when it did
  constructed,      \* the array the ArchiveReader was constructed from
  assets,           \* ArchiveReader: the archive
  last,             \* ArchiveReader: the latest call and its outcome
  failedBefore      \* a call before the latest one failed

discVars ==
  << cwd, nGlobs, allowDuplicates, pc, g, files, cur, walked, emitted,
     emittedAt, reads, requested, answers, failure, failedAt,
     stopped, stopAt >>

readerVars == << constructed, assets, last, failedBefore >>

vars == << discVars, readerVars >>

NoEntry == [path |-> <<>>, isFile |-> FALSE, isSymlink |-> FALSE]

\* ------------------------------------------------ generateAssetReferences
\* the condition of the if statement
QualifiesDedupOff(file, seen, dup) == file.isFile /\ ~file.isSymlink

Qualifies(file, seen, dup) ==
  file.isFile /\ ~file.isSymlink /\ (dup \/ ~Includes(seen, file.path))

\* the yielded IAssetReference
AssetRef(base, sysPath, bytes) ==
  [ systemPath |-> sysPath,
    asset |-> [ path |-> FromFileUrl(Relative(base, sysPath)),
                contents |-> Base64Encode(bytes) ] ]

\* what the consumer holds after one more element
DeliverFirst(seq, x) == <<x>> \o seq

Deliver(seq, x) == Append(seq, x)

DiscInit ==
  /\ cwd \in BaseDirs
  /\ nGlobs \in 0..MaxGlobs
  /\ allowDuplicates \in BOOLEAN
  /\ pc = "start"
  /\ g = 1
  /\ files = <<>>
  /\ cur = NoEntry
  /\ walked = <<>>
  /\ emitted = <<>>
  /\ emittedAt = <<>>
  /\ reads = 0
  /\ requested = 0
  /\ answers = <<>>
  /\ failure = "none"
  /\ failedAt = 0
  /\ stopped = FALSE
  /\ stopAt = 0

\* the consumer calls next(); the calls queue up
Pull ==
  /\ requested < MaxPulls
  /\ requested' = requested + 1
  /\ UNCHANGED << readerVars, cwd, nGlobs, allowDuplicates, pc, g, files, cur, walked,
                  emitted, emittedAt, reads, answers, failure,
                  failedAt, stopped, stopAt >>

\* a suspended generator runs again only to serve a queued next()
ResumeEager ==
  /\ pc \in {"start", "yield"}
  /\ pc' = "iter"
  /\ UNCHANGED << readerVars, cwd, nGlobs, allowDuplicates, g, files, cur, walked,
                  emitted, emittedAt, reads, requested, answers,
                  failure, failedAt, stopped, stopAt >>

Resume ==
  /\ pc \in {"start", "yield"}
  /\ Len(answers) < requested
  /\ pc' = "iter"
  /\ UNCHANGED << readerVars, cwd, nGlobs, allowDuplicates, g, files, cur, walked,
                  emitted, emittedAt, reads, requested, answers,
                  failure, failedAt, stopped, stopAt >>

\* for await (const file of expandGlob(glob, ...)): the next entry, and
\* the if statement up to files.push
WalkNext ==
  /\ pc = "iter"
  /\ g <= nGlobs
  /\ Len(walked) < MaxWalk
  /\ \E file \in WalkEntries :
       /\ walked' = Append(walked, [glob |-> g, file |-> file])
       /\ IF Qualifies(file, files, allowDuplicates)
          THEN /\ files' = Append(files, file.path)
               /\ cur' = file
               /\ pc' = "read"
          ELSE UNCHANGED << files, cur, pc >>
  /\ UNCHANGED << readerVars, cwd, nGlobs, allowDuplicates, g, emitted, emittedAt, reads,
                  requested, answers, failure, failedAt, stopped,
                  stopAt >>

\* the enumeration of the current glob ends: on to the next glob
WalkEnd ==
  /\ pc = "iter"
  /\ g <= nGlobs
  /\ g' = g + 1
  /\ UNCHANGED << readerVars, cwd, nGlobs, allowDuplicates, pc, files, cur, walked,
                  emitted, emittedAt, reads, requested, answers,
                  failure, failedAt, stopped, stopAt >>

\* the enumeration itself fails
WalkFail ==
  /\ pc = "iter"
  /\ g <= nGlobs
  /\ pc' = "failed"
  /\ failure' = "walk"
  /\ failedAt' = Len(walked)
  /\ answers' = Append(answers, "error")
  /\ UNCHANGED << readerVars, cwd, nGlobs, allowDuplicates, g, files, cur, walked,
                  emitted, emittedAt, reads, requested, stopped, stopAt >>

\* await Deno.readFile(file.path) succeeds, and the yield
ReadOk ==
  /\ pc = "read"
  /\ reads' = reads + 1
  /\ emitted' = Deliver(emitted, AssetRef(cwd, cur.path, FileBytes(cur.path)))
  /\ emittedAt' = Deliver(emittedAt, Len(walked))
  /\ pc' = "yield"
  /\ answers' = Append(answers, "value")
  /\ UNCHANGED << readerVars, cwd, nGlobs, allowDuplicates, g, files, cur, walked,
                  requested, failure, failedAt, stopped, stopAt >>

\* await Deno.readFile(file.path) throws: skip the file and go on
ReadFailSkip ==
  /\ pc = "read"
  /\ reads' = reads + 1
  /\ pc' = "iter"
  /\ failure' = "read"
  /\ failedAt' = IF failure = "none" THEN Len(walked) ELSE failedAt
  /\ UNCHANGED << readerVars, cwd, nGlobs, allowDuplicates, g, files, cur, walked,
                  emitted, emittedAt, requested, answers,
                  stopped, stopAt >>

\* await Deno.readFile(file.path) throws: the generator ends with the error
ReadFail ==
  /\ pc = "read"
  /\ reads' = reads + 1
  /\ pc' = "failed"
  /\ failure' = "read"
  /\ failedAt' = Len(walked)
  /\ answers' = Append(answers, "error")
  /\ UNCHANGED << readerVars, cwd, nGlobs, allowDuplicates, g, files, cur, walked,
                  emitted, emittedAt, requested, stopped, stopAt >>

\* the for-of loop over globs is over: the generator returns
Finish ==
  /\ pc = "iter"
  /\ g > nGlobs
  /\ pc' = "done"
  /\ answers' = Append(answers, "done")
  /\ UNCHANGED << readerVars, cwd, nGlobs, allowDuplicates, g, files, cur, walked,
                  emitted, emittedAt, reads, requested, failure, failedAt,
                  stopped, stopAt >>

\* the consumer leaves its loop: return() on the suspended generator
Stop ==
  /\ pc \in {"start", "yield"}
  /\ Len(answers) = requested
  /\ pc' = "done"
  /\ stopped' = TRUE
  /\ stopAt' = Len(emitted)
  /\ UNCHANGED << readerVars, cwd, nGlobs, allowDuplicates, g, files, cur, walked,
                  emitted, emittedAt, reads, requested, answers,
                  failure, failedAt >>

\* next() on a generator that has ended
Drain ==
  /\ pc \in {"done", "failed"}
  /\ Len(answers) < requested
  /\ answers' = Append(answers, "done")
  /\ UNCHANGED << readerVars, cwd, nGlobs, allowDuplicates, pc, g, files, cur, walked,
                  emitted, emittedAt, reads, requested, failure, failedAt,
                  stopped, stopAt >>

Next ==
  \/ Pull
  \/ Resume
  \/ WalkNext
  \/ WalkEnd
  \/ WalkFail
  \/ ReadOk
  \/ ReadFail
  \/ Finish
  \/ Stop
  \/ Drain

\* ----------------------------------------------------------- TextDecoder
\* new TextDecoder("utf-8").decode(raw): the code points of the bytes from
\* index k on.  A malformed sequence gives U+FFFD and decoding goes on;
\* `need` continuation bytes are awaited, the next one within lo..hi.
RECURSIVE Utf8Decode(_, _, _, _, _, _, _)
Utf8Decode(b, k, cp, need, lo, hi, acc) ==
  IF k > Len(b) THEN (IF need > 0 THEN Append(acc, 65533) ELSE acc)
  ELSE IF need = 0 THEN
    IF b[k] < 128 THEN Utf8Decode(b, k + 1, 0, 0, 128, 191, Append(acc, b[k]))
    ELSE IF b[k] >= 194 /\ b[k] <= 223
      THEN Utf8Decode(b, k + 1, b[k] % 32, 1, 128, 191, acc)
    ELSE IF b[k] >= 224 /\ b[k] <= 239
      THEN Utf8Decode(b, k + 1, b[k] % 16, 2,
                      IF b[k] = 224 THEN 160 ELSE 128,
                      IF b[k] = 237 THEN 159 ELSE 191, acc)
    ELSE IF b[k] >= 240 /\ b[k] <= 244
      THEN Utf8Decode(b, k + 1, b[k] % 8, 3,
                      IF b[k] = 240 THEN 144 ELSE 128,
                      IF b[k] = 244 THEN 143 ELSE 191, acc)
    ELSE Utf8Decode(b, k + 1, 0, 0, 128, 191, Append(acc, 65533))
  ELSE IF b[k] < lo \/ b[k] > hi
    THEN Utf8Decode(b, k, 0, 0, 128, 191, Append(acc, 65533))
  ELSE IF need = 1
    THEN Utf8Decode(b, k + 1, 0, 0, 128, 191, Append(acc, cp * 64 + (b[k] % 64)))
  ELSE Utf8Decode(b, k + 1, cp * 64 + (b[k] % 64), need - 1, 128, 191, acc)

\* #decodeBuffer: a leading byte order mark is dropped
DecodeBuffer(raw) ==
  IF Len(raw) >= 3 /\ raw[1] = 239 /\ raw[2] = 187 /\ raw[3] = 191
  THEN Utf8Decode(raw, 4, 0, 0, 128, 191, <<>>)
  ELSE Utf8Decode(raw, 1, 0, 0, 128, 191, <<>>)

\* ------------------------------------------------------------ the archive
RecPaths ==
  { StrPath(TRUE, <<"x">>), StrPath(TRUE, <<"s", "x">>),
    StrPath(TRUE, <<"s", "..", "x">>) }

\* "YQ==" is the byte 97; "/8Op" is 255, 195, 169; "Y" is no base64
RecContents ==
  { <<"Y", "Q", "=", "=">>, <<"/", "8", "O", "p">>, <<"Y">> }

Records == [path : RecPaths, contents : RecContents]

RECURSIVE SeqsUpTo(_, _)
SeqsUpTo(S, n) ==
  IF n = 0 THEN {<<>>}
  ELSE LET shorter == SeqsUpTo(S, n - 1) IN
       shorter \cup {Append(q, x) : q \in {r \in shorter : Len(r) = n - 1}, x \in S}

Archives == SeqsUpTo(Records, MaxArchive)

\* the path argument of a read: a string, or a URL (scheme and path)
StringArg(path) ==
  [kind |-> "string", abs |-> path.abs, scheme |-> "", segs |-> path.segs]

UrlArg(scheme, segs) ==
  [kind |-> "url", abs |-> TRUE, scheme |-> scheme, segs |-> segs]

GlobArg(abs, segs) ==
  [kind |-> "glob", abs |-> abs, scheme |-> "", segs |-> segs]

NoArg == [kind |-> "none", abs |-> FALSE, scheme |-> "", segs |-> <<>>]

ReadArgs ==
  { StringArg(StrPath(TRUE, <<"x">>)),
    StringArg(StrPath(TRUE, <<"s", "x">>)),
    StringArg(StrPath(TRUE, <<"s", "..", "x">>)),
    StringArg(StrPath(TRUE, <<"q">>)),
    StringArg(StrPath(FALSE, <<"x">>)),
    UrlArg("file", <<"x">>),
    UrlArg("http", <<"x">>) }

\* "/*", "/*/x", "/s/**", "/**/x", "x" and "**"
GlobArgs ==
  { GlobArg(TRUE, <<"*">>), GlobArg(TRUE, <<"*", "x">>),
    GlobArg(TRUE, <<"s", "**">>), GlobArg(TRUE, <<"**", "x">>),
    GlobArg(FALSE, <<"x">>), GlobArg(FALSE, <<"**">>) }

\* ---------------------------------------------------------- ArchiveReader
\* the outcome of a call: a returned value, a thrown error, a promise, or
\* the paths a glob generator yields
Outcome(kind, type, value, error, href) ==
  [kind |-> kind, type |-> type, value |-> value, error |-> error, href |-> href]

Return(type, value) == Outcome("return", type, value, "", NoHref)

Throw(error, href) == Outcome("throw", "none", <<>>, error, href)

\* #toPathString
ToPathString(arg) ==
  IF arg.kind = "url"
  THEN [ok |-> TRUE, href |-> [scheme |-> arg.scheme, segs |-> arg.segs]]
  ELSE ToFileUrl(StrPath(arg.abs, arg.segs))

\* this.assets.find(...): the index of the first record whose path string
\* is comparePath, 0 when there is none, -1 when #toPathString throws
RECURSIVE FindLast(_, _, _)
FindLast(a, comparePath, k) ==
  IF k > Len(a) THEN 0
  ELSE LET t == ToPathString(StringArg(a[k].path)) IN
       IF ~t.ok THEN -1
       ELSE LET rest == FindLast(a, comparePath, k + 1) IN
            IF rest # 0 THEN rest
            ELSE IF t.href = comparePath THEN k ELSE 0

RECURSIVE Find(_, _, _)
Find(a, comparePath, k) ==
  IF k > Len(a) THEN 0
  ELSE LET t == ToPathString(StringArg(a[k].path)) IN
       IF ~t.ok THEN -1
       ELSE IF t.href = comparePath THEN k
       ELSE Find(a, comparePath, k + 1)

ReadFileSync(a, arg) ==
  LET comparePath == ToPathString(arg) IN
  IF ~comparePath.ok THEN Throw("TypeError", NoHref)
  ELSE LET file == Find(a, comparePath.href, 1) IN
       IF file = -1 THEN Throw("TypeError", NoHref)
       ELSE IF file = 0 THEN Throw("NotFound", comparePath.href)
       ELSE LET d == Base64Decode(a[file].contents) IN
            IF d.ok THEN Return("bytes", d.bytes)
            ELSE Throw("InvalidCharacterError", NoHref)

\* readFile without the try/catch: the error escapes the call
ReadFileNoCatch(a, arg) ==
  LET res == ReadFileSync(a, arg) IN
  IF res.kind = "throw" THEN res
  ELSE Outcome("fulfilled", res.type, res.value, "", NoHref)

\* readFile: the promise the executor settles before the call returns
ReadFile(a, arg) ==
  LET res == ReadFileSync(a, arg) IN
  IF res.kind = "throw"
  THEN Outcome("rejected", "none", <<>>, res.error, res.href)
  ELSE Outcome("fulfilled", res.type, res.value, "", NoHref)

ReadTextFileSync(a, arg) ==
  LET raw == ReadFileSync(a, arg) IN
  IF raw.kind = "throw" THEN raw
  ELSE Return("text", DecodeBuffer(raw.value))

\* the string path as the regular expression sees it: split at "/"
RawSegs(path) == IF path.abs THEN <<"">> \o path.segs ELSE path.segs

\* globToRegExp(glob).test(path), segment by segment: "**" stands for any
\* number of segments, "*" for one, anything else for itself; the
\* expression is anchored at both ends
RECURSIVE TestSegs(_, _)
TestSegs(pat, segs) ==
  IF pat = <<>> THEN segs = <<>>
  ELSE IF Head(pat) = "**"
    THEN \E n \in 0..Len(segs) : TestSegs(Tail(pat), SubSeq(segs, n + 1, Len(segs)))
  ELSE IF segs = <<>> THEN FALSE
  ELSE IF Head(pat) = "*" THEN TestSegs(Tail(pat), Tail(segs))
  ELSE Head(pat) = Head(segs) /\ TestSegs(Tail(pat), Tail(segs))

GlobTest(glob, path) ==
  TestSegs(RawSegs(StrPath(glob.abs, glob.segs)), RawSegs(path))

\* expandGlob that yields a path once only
RECURSIVE ExpandGlobUniqueFrom(_, _, _, _)
ExpandGlobUniqueFrom(a, glob, k, acc) ==
  IF k > Len(a) THEN acc
  ELSE IF GlobTest(glob, a[k].path) /\ ~Includes(acc, a[k].path)
    THEN ExpandGlobUniqueFrom(a, glob, k + 1, Append(acc, a[k].path))
  ELSE ExpandGlobUniqueFrom(a, glob, k + 1, acc)

ExpandGlobUnique(a, glob) == ExpandGlobUniqueFrom(a, glob, 1, <<>>)

\* expandGlob, iterated to its end: the for loop from record k on
RECURSIVE ExpandGlobFrom(_, _, _, _)
ExpandGlobFrom(a, glob, k, acc) ==
  IF k > Len(a) THEN acc
  ELSE IF GlobTest(glob, a[k].path)
    THEN ExpandGlobFrom(a, glob, k + 1, Append(acc, a[k].path))
  ELSE ExpandGlobFrom(a, glob, k + 1, acc)

ExpandGlob(a, glob) == ExpandGlobFrom(a, glob, 1, <<>>)

NoCall == [op |-> "none", arg |-> NoArg, out |-> Outcome("none", "none", <<>>, "", NoHref)]

Call(op, arg, out) == [op |-> op, arg |-> arg, out |-> out]

\* whether the latest call threw or gave a rejected promise
LastFailed ==
  last.out.kind \in {"throw", "rejected"} \/ (last.out.kind = "pending" /\ last.out.error # "")

ReaderInit ==
  /\ constructed \in Archives
  /\ assets = constructed
  /\ last = NoCall
  /\ failedBefore = FALSE

\* a readFileSync that takes the record it found out of the archive
ReadFileSyncCallTaking(arg) ==
  /\ failedBefore' = (failedBefore \/ LastFailed)
  /\ last' = Call("readFileSync", arg, ReadFileSync(assets, arg))
  /\ assets' = LET c == ToPathString(arg)
                   k == IF c.ok THEN Find(assets, c.href, 1) ELSE 0 IN
               IF k > 0 THEN [j \in 1..(Len(assets) - 1) |->
                                IF j < k THEN assets[j] ELSE assets[j + 1]]
               ELSE assets
  /\ UNCHANGED << discVars, constructed >>

ReadFileSyncCall(arg) ==
  /\ failedBefore' = (failedBefore \/ LastFailed)
  /\ last' = Call("readFileSync", arg, ReadFileSync(assets, arg))
  /\ UNCHANGED << discVars, constructed, assets >>

ReadFileCall(arg) ==
  /\ failedBefore' = (failedBefore \/ LastFailed)
  /\ last' = Call("readFile", arg, ReadFile(assets, arg))
  /\ UNCHANGED << discVars, constructed, assets >>

ReadTextFileSyncCall(arg) ==
  /\ failedBefore' = (failedBefore \/ LastFailed)
  /\ last' = Call("readTextFileSync", arg, ReadTextFileSync(assets, arg))
  /\ UNCHANGED << discVars, constructed, assets >>

\* readTextFile up to its await: readFile has run, the promise is pending
ReadTextFileCall(arg) ==
  /\ failedBefore' = (failedBefore \/ LastFailed)
  /\ last' = LET raw == ReadFile(assets, arg) IN
             Call("readTextFile", arg,
                  IF raw.kind \in {"fulfilled", "rejected"}
                  THEN Outcome("pending", raw.type, raw.value, raw.error, raw.href)
                  ELSE raw)
  /\ UNCHANGED << discVars, constructed, assets >>

\* readTextFile after its await: the decoded text, or the rejection
ReadTextFileSettle ==
  /\ last.op = "readTextFile"
  /\ last.out.kind = "pending"
  /\ last' = [last EXCEPT !.out =
                IF last.out.error # ""
                THEN Outcome("rejected", "none", <<>>, last.out.error, last.out.href)
                ELSE Outcome("fulfilled", "text", DecodeBuffer(last.out.value), "", NoHref)]
  /\ UNCHANGED << discVars, constructed, assets, failedBefore >>

ExpandGlobCall(glob) ==
  /\ failedBefore' = (failedBefore \/ LastFailed)
  /\ last' = Call("expandGlob", glob,
                  Outcome("list", "paths", ExpandGlob(assets, glob), "", NoHref))
  /\ UNCHANGED << discVars, constructed, assets >>

ReaderNext ==
  \/ \E arg \in ReadArgs : ReadFileSyncCall(arg)
  \/ \E arg \in ReadArgs : ReadFileCall(arg)
  \/ \E arg \in ReadArgs : ReadTextFileSyncCall(arg)
  \/ \E arg \in ReadArgs : ReadTextFileCall(arg)
  \/ ReadTextFileSettle
  \/ \E glob \in GlobArgs : ExpandGlobCall(glob)

\* --------------------------------------------------------- specifications
ReaderIdle ==
  /\ constructed = <<>>
  /\ assets = <<>>
  /\ last = NoCall
  /\ failedBefore = FALSE

DiscIdle ==
  /\ cwd = <<"d">>
  /\ nGlobs = 0
  /\ allowDuplicates = FALSE
  /\ pc = "start"
  /\ g = 1
  /\ files = <<>>
  /\ cur = NoEntry
  /\ walked = <<>>
  /\ emitted = <<>>
  /\ emittedAt = <<>>
  /\ reads = 0
  /\ requested = 0
  /\ answers = <<>>
  /\ failure = "none"
  /\ failedAt = 0
  /\ stopped = FALSE
  /\ stopAt = 0

\* a discovery run
Init == DiscInit /\ ReaderIdle

Spec == Init /\ [][Next]_vars

\* the life of one ArchiveReader
ReaderSpecInit == ReaderInit /\ DiscIdle

ReaderSpec == ReaderSpecInit /\ [][ReaderNext]_vars

\* ------------------------------------------------------ discovery claims
IsRegular(file) == file.isFile /\ ~file.isSymlink

\* the enumerated entries that were handled to the end: all of them, but
\* for the one being read and the one whose read failed
Handled ==
  IF pc = "read" \/ failure = "read" THEN Prefix(walked, Len(walked) - 1)
  ELSE walked

\* matching occurrences of the regular file at `path` among `w`
Hits(w, path) ==
  Cardinality({k \in 1..Len(w) : w[k].file.path = path /\ IsRegular(w[k].file)})

EmitCount(path) ==
  Cardinality({k \in 1..Len(emitted) : emitted[k].systemPath = path})

SysPaths == {file.path : file \in WalkEntries}

\* C1: a file is emitted once if it was matched at all and allowDuplicates
\* is false, and once per matching occurrence if allowDuplicates is true
C1_EmittedOncePerFileOrPerHit ==
  \A path \in SysPaths :
    EmitCount(path) =
      IF allowDuplicates THEN Hits(Handled, path)
      ELSE IF Hits(Handled, path) >= 1 THEN 1 ELSE 0

C1_Witness ==
  /\ ~allowDuplicates
  /\ pc = "done" /\ ~stopped
  /\ \E path \in SysPaths :
       /\ EmitCount(path) = 1
       /\ \E k, l \in 1..Len(walked) :
            /\ walked[k].glob # walked[l].glob
            /\ walked[k].file.path = path
            /\ walked[l].file.path = path

\* C2: elements come in pattern order and, within a pattern, in the order
\* of the enumeration
C2_EmissionOrder ==
  /\ Len(emittedAt) = Len(emitted)
  /\ \A k \in 1..Len(emitted) :
       /\ emittedAt[k] \in 1..Len(walked)
       /\ emitted[k].systemPath = walked[emittedAt[k]].file.path
  /\ \A k, l \in 1..Len(emitted) :
       k < l =>
         /\ emittedAt[k] < emittedAt[l]
         /\ walked[emittedAt[k]].glob <= walked[emittedAt[l]].glob

C2_Witness ==
  /\ Len(emitted) = 3
  /\ walked[emittedAt[1]].glob = 1
  /\ walked[emittedAt[2]].glob = 1
  /\ walked[emittedAt[3]].glob = 2
  /\ emitted[1].systemPath # emitted[2].systemPath

\* C7: file reads never outnumber the consumer's requests, and a consumer
\* that stopped after k elements caused k reads, then and ever after
C7_Lazy ==
  /\ reads <= requested
  /\ stopped => (reads = stopAt /\ Len(emitted) = stopAt)

C7_Witness ==
  /\ stopped
  /\ stopAt = 1
  /\ g <= nGlobs
  /\ Len(answers) > stopAt

\* what a run without failures emits for the enumerated entries `w`
RECURSIVE ExpectedFrom(_, _)
ExpectedFrom(w, seen) ==
  IF w = <<>> THEN <<>>
  ELSE LET file == Head(w).file IN
       IF IsRegular(file) /\ (allowDuplicates \/ file.path \notin seen)
       THEN <<AssetRef(cwd, file.path, FileBytes(file.path))>>
            \o ExpectedFrom(Tail(w), seen \cup {file.path})
       ELSE ExpectedFrom(Tail(w), seen)

\* C8: a failed read ends the sequence: the consumer gets the error, then
\* nothing but "done", and holds what a failure-free run would have
\* emitted before the file that failed
C8_AbortOnReadFailure ==
  failure = "read" =>
    /\ pc = "failed"
    /\ Len(walked) = failedAt
    /\ emitted = ExpectedFrom(Prefix(walked, failedAt - 1), {})
    /\ Len(answers) > Len(emitted)
    /\ \A k \in 1..Len(answers) :
         answers[k] = IF k <= Len(emitted) THEN "value"
                      ELSE IF k = Len(emitted) + 1 THEN "error"
                      ELSE "done"

C8_Witness ==
  /\ failure = "read"
  /\ Len(emitted) >= 1
  /\ g < nGlobs
  /\ Len(answers) >= Len(emitted) + 2

\* C10: with allowDuplicates false no two emitted records have the same
\* logical path
C10_UniqueLogicalPaths ==
  ~allowDuplicates =>
    \A k, l \in 1..Len(emitted) :
      k # l => emitted[k].asset.path # emitted[l].asset.path


\* --------------------------------------------------------- reader claims
\* the canonical form of a "/"-rooted path
Canon(path) == ResolveDots(path.segs, <<>>)

\* what decoding the contents of a record gives a caller
DecodeOutcome(contents) ==
  LET d == Base64Decode(contents) IN
  IF d.ok THEN Return("bytes", d.bytes) ELSE Throw("InvalidCharacterError", NoHref)

\* the earliest record of `a` with the canonical path of `path`
FirstWithPath(a, path) ==
  CHOOSE k \in 1..Len(a) :
    /\ Canon(a[k].path) = Canon(path)
    /\ \A j \in 1..(k - 1) : Canon(a[j].path) # Canon(path)

\* C3 as stated: readFileSync(r.path) returns the decoding of the contents
\* of that same record r
C3_ReadsOwnRecord ==
  last.op = "readFileSync" =>
    \A k \in 1..Len(assets) :
      StringArg(assets[k].path) = last.arg =>
        last.out = DecodeOutcome(assets[k].contents)

\* C3 as amended: readFileSync(r.path) returns the decoding of the contents
\* of the earliest record whose canonical path is that of r.path
C3_ReadsFirstRecordOfPath ==
  last.op = "readFileSync" =>
    \A k \in 1..Len(assets) :
      StringArg(assets[k].path) = last.arg =>
        last.out = DecodeOutcome(assets[FirstWithPath(assets, assets[k].path)].contents)

C3_Witness ==
  /\ last.op = "readFileSync"
  /\ last.out.kind = "return"
  /\ \E k \in 1..Len(assets) :
       /\ StringArg(assets[k].path) = last.arg
       /\ FirstWithPath(assets, assets[k].path) < k
       /\ assets[FirstWithPath(assets, assets[k].path)].contents # assets[k].contents

\* whether the requested path is the logical path of the record
Names(arg, record) ==
  \/ arg.kind = "string" /\ arg.abs /\ ResolveDots(arg.segs, <<>>) = Canon(record.path)
  \/ arg.kind = "url" /\ arg.scheme = "file" /\ arg.segs = Canon(record.path)

\* the requested path in normalized form
RequestedHref(arg) ==
  IF arg.kind = "url" THEN [scheme |-> arg.scheme, segs |-> arg.segs]
  ELSE [scheme |-> "file", segs |-> ResolveDots(arg.segs, <<>>)]

\* C4: readFileSync of a path no record has fails with NotFound, which
\* carries the normalized path requested
C4_AbsentPathIsNotFound ==
  (last.op = "readFileSync" /\ \A k \in 1..Len(assets) : ~Names(last.arg, assets[k]))
    => last.out = Throw("NotFound", RequestedHref(last.arg))

\* the promise that stands for the outcome of a synchronous call
AsPromise(o) ==
  IF o.kind = "throw" THEN Outcome("rejected", "none", <<>>, o.error, o.href)
  ELSE Outcome("fulfilled", o.type, o.value, "", NoHref)

\* C5: readFile and readTextFile never throw at the call; their promise
\* ends as the synchronous reader ends on the same path and archive
C5_AsyncMatchesSync ==
  /\ last.op = "readFile" =>
       last.out = AsPromise(ReadFileSync(assets, last.arg))
  /\ last.op = "readTextFile" =>
       /\ last.out.kind \in {"pending", "fulfilled", "rejected"}
       /\ last.out.kind # "pending" =>
            last.out = AsPromise(ReadTextFileSync(assets, last.arg))

C5_Witness ==
  /\ last.op = "readTextFile"
  /\ last.out.kind = "rejected"
  /\ last.out.error = "NotFound"
  /\ assets # <<>>

\* the records of `a` that the glob matches
MatchIdx(a, glob) == {k \in 1..Len(a) : GlobTest(glob, a[k].path)}

NthMatch(a, glob, n) ==
  CHOOSE k \in MatchIdx(a, glob) :
    Cardinality({j \in MatchIdx(a, glob) : j < k}) = n - 1

\* the paths of the matching records of the archive the reader was made
\* from, in archive order
YieldsMatchingRecords ==
  /\ last.out.kind = "list"
  /\ Len(last.out.value) = Cardinality(MatchIdx(constructed, last.arg))
  /\ \A n \in 1..Len(last.out.value) :
       last.out.value[n] = constructed[NthMatch(constructed, last.arg, n)].path

\* C6 as stated: expandGlob yields the matching archive paths in archive
\* order, each exactly once, at every call
C6_EachMatchingPathOnce ==
  last.op = "expandGlob" =>
    /\ YieldsMatchingRecords
    /\ \A n, m \in 1..Len(last.out.value) :
         n # m => last.out.value[n] # last.out.value[m]

\* C6 as amended: expandGlob yields the path of every matching record, once
\* per record, in archive order, at every call
C6_OncePerMatchingRecord ==
  last.op = "expandGlob" => YieldsMatchingRecords

C6_Witness ==
  /\ last.op = "expandGlob"
  /\ failedBefore
  /\ Len(last.out.value) = 2
  /\ last.out.value[1] = last.out.value[2]
  /\ constructed[1].contents # constructed[2].contents

\* what a settled call gives on archive `a`
EvalCall(a, op, arg) ==
  IF op = "readFileSync" THEN ReadFileSync(a, arg)
  ELSE IF op = "readFile" THEN AsPromise(ReadFileSync(a, arg))
  ELSE IF op = "readTextFileSync" THEN ReadTextFileSync(a, arg)
  ELSE IF op = "readTextFile" THEN AsPromise(ReadTextFileSync(a, arg))
  ELSE Outcome("list", "paths", ExpandGlob(a, arg), "", NoHref)

\* C9: no call changes the archive, and every call gives what it gives on
\* the archive the reader was constructed from
C9_ArchiveNeverChanges ==
  /\ assets = constructed
  /\ (last.op # "none" /\ last.out.kind # "pending") =>
       last.out = EvalCall(constructed, last.op, last.arg)

C9_Witness ==
  /\ failedBefore
  /\ last.op = "readFileSync"
  /\ last.out.kind = "return"
  /\ Len(assets) = 2

====
